---- MODULE Spec2Model ----
(***************************************************************************)
(* Model of navia-doc-validator: the FileUpload component (the Batch       *)
(* Upload Coordinator) composed with the validate-document function (the   *)
(* Validation Relay Endpoint), and the feature-flags function.             *)
(*                                                                         *)
(* The Coordinator is a React component: its state is `files` and `state`; *)
(* every event handler runs to completion, and an async handler runs       *)
(* atomically from one await to the next.  A started handleUpload is a     *)
(* "run": it keeps the `files` of the render it was started from and its   *)
(* own local `results` array.  `runs` lists the runs that have not         *)
(* returned, in the order they were started.                               *)
(***************************************************************************)
EXTENDS Integers, Sequences, FiniteSets, TLC

\* ---------------------------------------------------------------- bounds
MaxSel == 2      \* files in one selection or drop
MaxRuns == 2     \* handleUpload invocations in one behaviour
MaxText == 6     \* tokens in an inference reply

\* ---------------------------------------------------------------- values
PDF == "application/pdf"
Null == "<null>"          \* JavaScript null / undefined
NoResult == [kind |-> "none", value |-> "", rawResponse |-> <<>>, parseError |-> ""]

FileA == [name |-> "a.pdf", type |-> PDF]
FileB == [name |-> "b.pdf", type |-> PDF]
FileN == [name |-> "n.txt", type |-> "text/plain"]
FileUniverse == {FileA, FileB, FileN}

\* The place of a file in the folder the user selects or drags from.
Rank(f) == IF f = FileA THEN 1 ELSE IF f = FileB THEN 2 ELSE 3

\* The FileLists a picker or a drop can deliver: distinct files, in the order
\* of the folder.
Selections ==
  { s \in UNION { [1..n -> FileUniverse] : n \in 0..MaxSel } :
      \A i, j \in 1..Len(s) : i < j => Rank(s[i]) < Rank(s[j]) }

Runs == 1..MaxRuns      \* places in the list of runs

\* FilterPdf without its test: every file of the selection is accepted.
FilterPdfAcceptingAll(s) == s

RECURSIVE FilterPdf(_)
\* Array.from(list).filter(f => f.type === "application/pdf")
FilterPdf(s) ==
  IF s = <<>> THEN <<>>
  ELSE IF Head(s).type = PDF THEN <<Head(s)>> \o FilterPdf(Tail(s))
       ELSE FilterPdf(Tail(s))

\* The object every handler but handleUpload writes, with its error field.
ClearedState(err) ==
  [uploading |-> FALSE, error |-> err, results |-> <<>>,
   currentFile |-> 0, totalFiles |-> 0]

InitialState == ClearedState(Null)

\* ------------------------------------------------- the relay: pure parts
\* An inference reply is a sequence of tokens: "F" is a run of three
\* backticks, "json" the language tag, "n" a newline, "s" a blank, "J" and
\* "K" the texts of two JSON values and "x" text that is not JSON.
White == {"n", "s"}
JsonValues == {"J", "K"}

RECURSIVE TrimLeft(_)
TrimLeft(t) == IF t # <<>> /\ Head(t) \in White THEN TrimLeft(Tail(t)) ELSE t

RECURSIVE TrimRight(_)
TrimRight(t) ==
  IF t # <<>> /\ t[Len(t)] \in White THEN TrimRight(SubSeq(t, 1, Len(t) - 1))
  ELSE t

\* String.prototype.trim
Trim(t) == TrimRight(TrimLeft(t))

\* String.prototype.startsWith
StartsWith(t, p) == Len(t) >= Len(p) /\ SubSeq(t, 1, Len(p)) = p

\* t.replace(/^p/, ''): drops the prefix p when t begins with it
DropPrefix(t, p) == IF StartsWith(t, p) THEN SubSeq(t, Len(p) + 1, Len(t)) ELSE t

\* t.replace(/p$/, ''): drops the suffix p when t ends with it
DropSuffix(t, p) ==
  IF Len(t) >= Len(p) /\ SubSeq(t, Len(t) - Len(p) + 1, Len(t)) = p
  THEN SubSeq(t, 1, Len(t) - Len(p)) ELSE t

\* StripFences for a handler that removes the opening fence only.
StripFencesOpeningOnly(responseText) ==
  LET cleanedText == Trim(responseText) IN
  IF StartsWith(cleanedText, <<"F", "json">>)
  THEN DropPrefix(cleanedText, <<"F", "json", "n">>)
  ELSE IF StartsWith(cleanedText, <<"F">>)
  THEN DropPrefix(cleanedText, <<"F", "n">>)
  ELSE cleanedText

\* "Strip markdown code blocks if present"
StripFences(responseText) ==
  LET cleanedText == Trim(responseText) IN
  IF StartsWith(cleanedText, <<"F", "json">>)
  THEN DropSuffix(DropPrefix(cleanedText, <<"F", "json", "n">>), <<"n", "F">>)
  ELSE IF StartsWith(cleanedText, <<"F">>)
  THEN DropSuffix(DropPrefix(cleanedText, <<"F", "n">>), <<"n", "F">>)
  ELSE cleanedText

\* JSON.parse accepts one JSON value with white space around it.
JsonValid(t) == Len(Trim(t)) = 1 /\ Trim(t)[1] \in JsonValues

\* try { result = JSON.parse(cleanedText) } catch { result = {rawResponse, parseError} }
ParseResult(cleanedText) ==
  IF JsonValid(cleanedText)
  THEN [kind |-> "parsed", value |-> Trim(cleanedText)[1], rawResponse |-> <<>>, parseError |-> ""]
  ELSE [kind |-> "raw", value |-> "", rawResponse |-> cleanedText,
        parseError |-> "Could not parse JSON response"]

\* ------------------------------------------------ the relay: requests
Methods == {"OPTIONS", "GET", "PUT", "POST"}

\* The text of an Error or of an error field; `HTTP ${status}: ${statusText}`
\* keeps its status.  The empty text is JavaScript's falsy message.
Msg(text) == [text |-> text, status |-> 0]
HttpMsg(status) == [text |-> "HTTP", status |-> status]
NoMsg == Msg("")

\* a || b on message texts
OrElse(m, fallback) == IF m.text # "" THEN m ELSE Msg(fallback)

NoResp ==
  [status |-> 0, cors |-> FALSE, ok |-> FALSE, success |-> "absent",
   error |-> NoMsg, result |-> NoResult]

\* new Response(JSON.stringify(body), { status, headers })
Response(status, okField, success, error, result) ==
  [status |-> status, cors |-> TRUE, ok |-> okField, success |-> success,
   error |-> error, result |-> result]

\* One invocation of the handler: where it stands (pc), the request, the calls
\* it has made to the flag client (ldLog) and to the inference API (apiCalls),
\* its locals enhancedValidationEnabled, responseText and cleanedText, and the
\* response it returned.
IdleReq ==
  [pc |-> "idle", method |-> "POST", hasFile |-> FALSE,
   ldLog |-> <<>>, enhancedValidationEnabled |-> FALSE, apiCalls |-> 0,
   responseText |-> <<>>, cleanedText |-> <<>>, resp |-> NoResp]

NewReq(method, hasFile) ==
  [IdleReq EXCEPT !.pc = "sent", !.method = method, !.hasFile = hasFile]

Respond(q, resp) == [q EXCEPT !.pc = "responded", !.resp = resp]

\* Caught for a handler that answers every exception with the same text.
CaughtHidingMessage(q, thrown) ==
  Respond(q, Response(500, FALSE, "false", Msg("Internal server error"), NoResult))

\* catch (error) { return 500 { success: false, error: error.message || ... } }
Caught(q, thrown) ==
  Respond(q, Response(500, FALSE, "false",
                      OrElse(thrown, "Internal server error"), NoResult))

\* The handler runs atomically from one await to the next; each operator below
\* is one such stretch, from the invocation q before it to the one after it.

\* Dispatch for a handler that checks the credential before the method.
DispatchCredentialFirst(q, e) ==
  IF ~ e.apiKey
  THEN Caught(q, Msg("ANTHROPIC_API_KEY not configured"))
  ELSE IF q.method = "OPTIONS"
  THEN Respond(q, Response(200, TRUE, "absent", NoMsg, NoResult))
  ELSE IF q.method # "POST"
  THEN Respond(q, Response(405, FALSE, "false", Msg("Method not allowed"), NoResult))
  ELSE IF e.ldId
  THEN [q EXCEPT !.pc = "ldWait", !.ldLog = <<"init", "waitForInitialization">>]
  ELSE [q EXCEPT !.pc = "form"]

\* From the entry of the handler to its first await: the method dispatch, the
\* credential check, and initLD(...).waitForInitialization() or req.formData().
Dispatch(q, e) ==
  IF q.method = "OPTIONS"
  THEN Respond(q, Response(200, TRUE, "absent", NoMsg, NoResult))
  ELSE IF q.method # "POST"
  THEN Respond(q, Response(405, FALSE, "false", Msg("Method not allowed"), NoResult))
  ELSE IF ~ e.apiKey
  THEN Caught(q, Msg("ANTHROPIC_API_KEY not configured"))
  ELSE IF e.ldId
  THEN [q EXCEPT !.pc = "ldWait", !.ldLog = <<"init", "waitForInitialization">>]
  ELSE [q EXCEPT !.pc = "form"]

\* await ldClient.waitForInitialization() settles
LdWait(q, ready) ==
  IF ready
  THEN [q EXCEPT !.pc = "ldVar", !.ldLog = Append(@, "variation")]
  ELSE [q EXCEPT !.pc = "form"]

\* What ldClient.variation(key, context, false) settles with: the value of the
\* flag, or an error.
Answers == {"true", "false", "error"}

\* await ldClient.variation(...) settles
LdVar(q, answered) ==
  IF answered # "error"
  THEN [q EXCEPT !.pc = "ldClose", !.ldLog = Append(@, "close"),
                 !.enhancedValidationEnabled = (answered = "true")]
  ELSE [q EXCEPT !.pc = "form"]

\* await ldClient.close() settles, either way on to req.formData()
LdClose(q) == [q EXCEPT !.pc = "form"]

\* Form for a handler that does not test the file field.
FormUnchecked(q) == [q EXCEPT !.pc = "infer", !.apiCalls = @ + 1]

\* await req.formData() settles: the file check, and with a file the call
\* anthropic.messages.create(...)
Form(q) ==
  IF ~ q.hasFile
  THEN Respond(q, Response(400, FALSE, "false", Msg("No file provided"), NoResult))
  ELSE [q EXCEPT !.pc = "infer", !.apiCalls = @ + 1]

\* What anthropic.messages.create(...) settles with: a reply text, or an error.
Reply(text) == [ok |-> TRUE, text |-> text, message |-> NoMsg]
Failure(message) == [ok |-> FALSE, text |-> <<>>, message |-> message]
Replies == { <<"J">>, <<"F", "json", "n", "J", "n", "F">>, <<"x">> }
Inferences ==
  { Reply(t) : t \in Replies } \cup { Failure(Msg("overloaded")), Failure(NoMsg) }

\* Infer for a handler that lets the exception of JSON.parse reach its catch.
InferThrowingOnParse(q, inference) ==
  IF inference.ok /\ JsonValid(StripFences(inference.text))
  THEN Respond([q EXCEPT !.responseText = inference.text,
                         !.cleanedText = StripFences(inference.text)],
               Response(200, FALSE, "true", NoMsg,
                        ParseResult(StripFences(inference.text))))
  ELSE IF inference.ok THEN Caught(q, Msg("Unexpected token"))
  ELSE Caught(q, inference.message)

\* Every reply text of at most MaxText tokens.
TextTokens == {"F", "json", "n", "J", "K"}
Texts == UNION { [1..n -> TextTokens] : n \in 0..MaxText }
RelayInferences == Inferences \cup { Reply(t) : t \in Texts }

\* await anthropic.messages.create(...) settles
Infer(q, inference) ==
  IF inference.ok
  THEN LET cleanedText == StripFences(inference.text)
       IN  Respond([q EXCEPT !.responseText = inference.text,
                             !.cleanedText = cleanedText],
                   Response(200, FALSE, "true", NoMsg, ParseResult(cleanedText)))
  ELSE Caught(q, inference.message)

\* The stretch the invocation q is about to run.
Step(q, e, ready, answered, inference) ==
  CASE q.pc = "sent" -> Dispatch(q, e)
    [] q.pc = "ldWait" -> LdWait(q, ready)
    [] q.pc = "ldVar" -> LdVar(q, answered)
    [] q.pc = "ldClose" -> LdClose(q)
    [] q.pc = "form" -> Form(q)
    [] q.pc = "infer" -> Infer(q, inference)
    [] OTHER -> q

RECURSIVE Handle(_, _, _, _, _)
\* The whole invocation, when every await settles: the flag client as ready
\* and answered say, the inference API with inference.
Handle(q, e, ready, answered, inference) ==
  IF q.pc \in {"idle", "responded"} THEN q
  ELSE Handle(Step(q, e, ready, answered, inference), e, ready, answered, inference)

\* ------------------------------------------------ the feature-flags function
\* One invocation of the feature-flags handler: where it stands (pc), the
\* request method, the calls it has made to the flag client (ldLog), its
\* locals newFeatureEnabled and enhancedValidationEnabled, and the response
\* it returned.
IdleFlagReq ==
  [pc |-> "idle", method |-> "GET", ldLog |-> <<>>,
   newFeatureEnabled |-> FALSE, enhancedValidationEnabled |-> FALSE,
   resp |-> NoResp]

NewFlagReq(method) == [IdleFlagReq EXCEPT !.pc = "sent", !.method = method]

\* What a rejected call of the flag client throws.
FlagErrors == {Msg("LaunchDarkly unavailable"), NoMsg}

\* FlagDispatch for a handler that reports the default flags when the
\* client-side ID is missing.
FlagDispatchDefaulting(q, e) ==
  IF q.method = "OPTIONS"
  THEN Respond(q, Response(200, TRUE, "absent", NoMsg, NoResult))
  ELSE IF ~ e.ldId
  THEN Respond(q, Response(200, FALSE, "true", NoMsg, NoResult))
  ELSE [q EXCEPT !.pc = "ldWait", !.ldLog = <<"init", "waitForInitialization">>]

\* From the entry of the handler to its first await: the OPTIONS reply, the
\* test of LAUNCHDARKLY_CLIENT_SIDE_ID, and initLD(...).waitForInitialization().
FlagDispatch(q, e) ==
  IF q.method = "OPTIONS"
  THEN Respond(q, Response(200, TRUE, "absent", NoMsg, NoResult))
  ELSE IF ~ e.ldId
  THEN Respond(q, Response(500, FALSE, "false",
                           Msg("LAUNCHDARKLY_CLIENT_SIDE_ID not configured"),
                           NoResult))
  ELSE [q EXCEPT !.pc = "ldWait", !.ldLog = <<"init", "waitForInitialization">>]

\* await client.waitForInitialization() settles
FlagWait(q, ready, thrown) ==
  IF ready
  THEN [q EXCEPT !.pc = "ldVar1", !.ldLog = Append(@, "variation")]
  ELSE Caught(q, thrown)

\* await client.variation(flagKey, userContext, false) settles
FlagVar1(q, answered, thrown) ==
  IF answered # "error"
  THEN [q EXCEPT !.pc = "ldVar2", !.ldLog = Append(@, "variation"),
                 !.newFeatureEnabled = (answered = "true")]
  ELSE Caught(q, thrown)

\* await client.variation(enhancedValidation, userContext, false) settles
FlagVar2(q, answered, thrown) ==
  IF answered # "error"
  THEN [q EXCEPT !.pc = "ldClose", !.ldLog = Append(@, "close"),
                 !.enhancedValidationEnabled = (answered = "true")]
  ELSE Caught(q, thrown)

\* await client.close() settles
FlagClose(q, closed, thrown) ==
  IF closed
  THEN Respond(q, Response(200, FALSE, "true", NoMsg, NoResult))
  ELSE Caught(q, thrown)

\* ------------------------------------------------ the Coordinator: values
\* What response.text() of a 2xx response can yield: the body the relay wrote
\* ("json"), nothing, or text that is not JSON.
Bodies == {"json", "empty", "malformed"}

Delivered(resp, body) ==
  [status |-> resp.status, text |-> body,
   data |-> IF body = "json" THEN resp ELSE NoResp]

\* Ok for a Coordinator that takes every answered request as a success.
OkWhenAnswered(response) == response.status >= 200

\* response.ok
Ok(response) == response.status >= 200 /\ response.status <= 299

\* response.text() is called on a 2xx response only.
BodiesOf(resp) == IF Ok(resp) THEN Bodies ELSE {"json"}

\* What a relay invocation leaves behind for its caller: the response, and
\* the number of inference calls it made.
Outcome(q) == [resp |-> q.resp, apiCalls |-> q.apiCalls]

\* Every way a relay invocation can serve a POST of the Coordinator (a form
\* body with the file) under the environment e, run to its response.
Envs == [apiKey : BOOLEAN, ldId : BOOLEAN]
Serving ==
  { <<e, Outcome(Handle(NewReq("POST", TRUE), e, ready, answered, inference))>> :
      e \in Envs, ready \in BOOLEAN, answered \in Answers, inference \in Inferences }
Served(e) == { p[2] : p \in { x \in Serving : x[1] = e } }

\* What a call that never reached the relay leaves behind.
NotServed == [resp |-> NoResp, apiCalls |-> 0]

\* A handleUpload invocation at its first await: the files of the render it
\* was started from, its loop index i and its local results array; calls,
\* kinds, api and served record what it did: the files it issued a relay call
\* for, how each call ended, the inference calls the relay invocation serving
\* it made, and the kind of result in the body the Coordinator read.
NewRun(batch) ==
  [files |-> batch, i |-> 0, results |-> <<>>,
   calls |-> <<1>>, kinds |-> <<>>, api |-> <<>>, served |-> <<>>]

\* The sequence s without its k-th element.
Without(s, k) == SubSeq(s, 1, k - 1) \o SubSeq(s, k + 1, Len(s))

\* The record of the step taken last: the handler (op); the FileList a
\* selection was given (sel); the batch (files) and the number of results (n)
\* the handler found; and for a completed run what it did (calls, kinds, api,
\* served).
NoLast ==
  [op |-> "init", sel |-> <<>>, files |-> <<>>, n |-> 0,
   calls |-> <<>>, kinds |-> <<>>, api |-> <<>>, served |-> <<>>]

VARIABLES
  files,    \* useState<File[]>: the accepted UploadBatch
  state,    \* useState<UploadState>
  runs,     \* the handleUpload invocations that have not returned yet
  started,  \* the number of handleUpload invocations so far
  req,      \* a relay invocation for a request of any client
  flagReq,  \* a feature-flags invocation for a request of any client
  env,      \* process.env of the functions
  last      \* the handler step taken last, with what it was given

vars == <<files, state, runs, started, req, flagReq, env, last>>

Init ==
  /\ files = <<>>
  /\ state = InitialState
  /\ runs = <<>>
  /\ started = 0
  /\ req = IdleReq
  /\ flagReq = IdleFlagReq
  /\ env \in Envs
  /\ last = NoLast

\* ------------------------------------------------ the Coordinator
\* results.push({ fileName, status: 'success', result: data.result })
SuccessOutcome(file, result) ==
  [fileName |-> file.name, status |-> "success", error |-> NoMsg, result |-> result]

\* results.push({ fileName, status: 'error', error })
ErrorOutcome(file, error) ==
  [fileName |-> file.name, status |-> "error", error |-> error, result |-> NoResult]

\* catch (error) { results.push({ ..., error: error.message || 'Upload failed' }) }
CatchOutcome(file, thrown) == ErrorOutcome(file, OrElse(thrown, "Upload failed"))

\* The try block from `const text = await response.text()` on.
BodyOutcome(file, response) ==
  IF response.text = "empty"
  THEN CatchOutcome(file, Msg("Empty response from server"))
  ELSE IF response.text # "json"
  THEN CatchOutcome(file, Msg("Unexpected token"))
  ELSE IF response.data.success = "true"
  THEN SuccessOutcome(file, response.data.result)
  ELSE ErrorOutcome(file, OrElse(response.data.error, "Validation failed"))

\* How the relay call for one file ended, as the Coordinator observes it.
BodyKind(response) ==
  IF response.text # "json" THEN response.text
  ELSE IF response.data.success = "true" THEN "ok" ELSE "rejected"

\* LoopContinues for a loop that gives up at the first failed file.
LoopContinuesUntilError(i, n, outcome) == i < n /\ outcome.status # "error"

\* for (let i = 0; i < files.length; i++): the test after i++
LoopContinues(i, n, outcome) == i < n

\* NextIndex for a loop that tries a failed file again.
NextIndexRetrying(i, outcome) == IF outcome.status = "error" THEN i ELSE i + 1

\* for (...; i++): the index of the iteration after the one that pushed outcome
NextIndex(i, outcome) == i + 1

\* FinalState for a handleUpload that forgets to lower the uploading flag.
FinalStateStillUploading(results) ==
  [uploading |-> TRUE, error |-> Null, results |-> results,
   currentFile |-> 0, totalFiles |-> 0]

\* The state the last line of handleUpload writes.
FinalState(results) ==
  [uploading |-> FALSE, error |-> Null, results |-> results,
   currentFile |-> 0, totalFiles |-> 0]

\* The rest of an iteration once its outcome is known: the push, i++, and then
\* either the head of the next iteration up to its fetch, or the final setState.
Advance(r, outcome, kind, q) ==
  LET run == runs[r]
      results == Append(run.results, outcome)
      kinds == Append(run.kinds, kind)
      api == Append(run.api, q.apiCalls)
      served == Append(run.served, q.resp.result.kind)
      i == NextIndex(run.i, outcome)
  IN  /\ IF LoopContinues(i, Len(run.files), outcome)
         THEN /\ state' = [state EXCEPT !.currentFile = i + 1]
              /\ runs' = [runs EXCEPT ![r] =
                   [run EXCEPT !.i = i, !.results = results,
                               !.calls = Append(@, i + 1),
                               !.kinds = kinds, !.api = api,
                               !.served = served]]
              /\ last' = [NoLast EXCEPT !.op = "next"]
         ELSE /\ state' = FinalState(results)
              /\ runs' = Without(runs, r)
              /\ last' = [NoLast EXCEPT !.op = "complete",
                            !.files = run.files, !.calls = run.calls,
                            !.kinds = kinds, !.api = api,
                            !.served = served]
      /\ UNCHANGED <<files, started, req, flagReq, env>>

\* HandleDrop for a handler that empties the batch when it rejects a drop.
HandleDropClearing(sel) ==
  LET droppedFiles == FilterPdf(sel) IN
  /\ IF Len(droppedFiles) > 0
     THEN /\ files' = droppedFiles
          /\ state' = ClearedState(Null)
     ELSE /\ files' = <<>>
          /\ state' = ClearedState("Please upload PDF files only")
  /\ last' = [NoLast EXCEPT !.op = "drop", !.sel = sel]
  /\ UNCHANGED <<runs, started, req, flagReq, env>>

HandleDrop(sel) ==
  LET droppedFiles == FilterPdf(sel) IN
  /\ IF Len(droppedFiles) > 0
     THEN /\ files' = droppedFiles
          /\ state' = ClearedState(Null)
     ELSE /\ files' = files
          /\ state' = ClearedState("Please upload PDF files only")
  /\ last' = [NoLast EXCEPT !.op = "drop", !.sel = sel]
  /\ UNCHANGED <<runs, started, req, flagReq, env>>

\* The picker opens from the "Click to upload" label, which is rendered only
\* while no file is selected.
HandleFileChange(sel) ==
  LET selectedFiles == FilterPdf(sel) IN
  /\ Len(files) = 0
  /\ IF Len(selectedFiles) > 0
     THEN /\ files' = selectedFiles
          /\ state' = ClearedState(Null)
     ELSE /\ files' = files
          /\ state' = ClearedState("Please upload PDF files only")
  /\ last' = [NoLast EXCEPT !.op = "change", !.sel = sel]
  /\ UNCHANGED <<runs, started, req, flagReq, env>>

\* A click on the Validate button (disabled={files.length === 0 ||
\* state.uploading}): handleUpload up to its first await.
HandleUpload ==
  /\ ~ state.uploading
  /\ Len(files) # 0
  /\ started < MaxRuns
  /\ state' = [uploading |-> TRUE, error |-> Null, results |-> <<>>,
               currentFile |-> 1, totalFiles |-> Len(files)]
  /\ runs' = Append(runs, NewRun(files))
  /\ started' = started + 1
  /\ last' = [NoLast EXCEPT !.op = "upload", !.files = files]
  /\ UNCHANGED <<files, req, flagReq, env>>

\* await fetch(...) rejects: the request did not reach the relay.
FetchReject(r, message) ==
  /\ r <= Len(runs)
  /\ Advance(r, CatchOutcome(runs[r].files[runs[r].i + 1], message), "netfail",
             NotServed)

\* await fetch(...) resolves with the response of the relay invocation q that
\* served the request, and for a 2xx response await response.text() resolves
\* with body (between the two awaits the invocation writes nothing): the rest
\* of the try block.
FetchResolve(r, q, body) ==
  LET run == runs[r]
      file == run.files[run.i + 1]
      response == Delivered(q.resp, body)
  IN  /\ r <= Len(runs)
      /\ IF ~ Ok(response)
         THEN Advance(r, CatchOutcome(file, HttpMsg(response.status)), "non2xx",
                      [q EXCEPT !.resp = NoResp])
         ELSE Advance(r, BodyOutcome(file, response), BodyKind(response),
                      [q EXCEPT !.resp = response.data])

\* HandleReset for a handler without its setFiles([]).
HandleResetKeepingFiles ==
  /\ ~ (Len(files) = 0 /\ Len(state.results) = 0)
  /\ ~ state.uploading
  /\ files' = files
  /\ state' = ClearedState(Null)
  /\ last' = [NoLast EXCEPT !.op = "reset", !.files = files,
                            !.n = Len(state.results)]
  /\ UNCHANGED <<runs, started, req, flagReq, env>>

\* A click on the Reset button (rendered when files or results are there,
\* disabled={state.uploading}).
HandleReset ==
  /\ ~ (Len(files) = 0 /\ Len(state.results) = 0)
  /\ ~ state.uploading
  /\ files' = <<>>
  /\ state' = ClearedState(Null)
  /\ last' = [NoLast EXCEPT !.op = "reset", !.files = files,
                            !.n = Len(state.results)]
  /\ UNCHANGED <<runs, started, req, flagReq, env>>

\* ------------------------------------------------ the relay handler, by steps
RelayStep(pc, q) ==
  /\ req.pc = pc
  /\ req' = q
  /\ last' = [NoLast EXCEPT !.op = "relay"]
  /\ UNCHANGED <<files, state, runs, started, flagReq, env>>

Receive(method, hasFile) ==
  /\ req.pc \in {"idle", "responded"}
  /\ req' = NewReq(method, hasFile)
  /\ last' = [NoLast EXCEPT !.op = "request"]
  /\ UNCHANGED <<files, state, runs, started, flagReq, env>>

RelayDispatch == RelayStep("sent", Dispatch(req, env))
LdWaitDone(ready) == RelayStep("ldWait", LdWait(req, ready))
LdVarDone(answered) == RelayStep("ldVar", LdVar(req, answered))
LdCloseDone == RelayStep("ldClose", LdClose(req))
FormDone == RelayStep("form", Form(req))
InferDone(inference) == RelayStep("infer", Infer(req, inference))

\* ------------------------------------------------ the feature-flags handler, by steps
FlagStep(pc, q) ==
  /\ flagReq.pc = pc
  /\ flagReq' = q
  /\ last' = [NoLast EXCEPT !.op = "flags"]
  /\ UNCHANGED <<files, state, runs, started, req, env>>

FlagReceive(method) ==
  /\ flagReq.pc \in {"idle", "responded"}
  /\ flagReq' = NewFlagReq(method)
  /\ last' = [NoLast EXCEPT !.op = "flagRequest"]
  /\ UNCHANGED <<files, state, runs, started, req, env>>

FlagDispatchDone == FlagStep("sent", FlagDispatch(flagReq, env))
FlagWaitDone(ready, thrown) == FlagStep("ldWait", FlagWait(flagReq, ready, thrown))
FlagVar1Done(answered, thrown) == FlagStep("ldVar1", FlagVar1(flagReq, answered, thrown))
FlagVar2Done(answered, thrown) == FlagStep("ldVar2", FlagVar2(flagReq, answered, thrown))
FlagCloseDone(closed, thrown) == FlagStep("ldClose", FlagClose(flagReq, closed, thrown))

\* ------------------------------------------------ the specifications
ThrownMessages == {Msg("Failed to fetch"), NoMsg}

\* The Coordinator, with the relay invocations that serve its calls.
Next ==
  \/ \E sel \in Selections : HandleDrop(sel)
  \/ \E sel \in Selections : HandleFileChange(sel)
  \/ HandleUpload
  \/ \E r \in Runs, m \in ThrownMessages : FetchReject(r, m)
  \/ \E r \in Runs, q \in Served(env) : \E body \in BodiesOf(q.resp) :
       FetchResolve(r, q, body)
  \/ HandleReset

Spec == Init /\ [][Next]_vars

\* await fetch(...) of some run settles, one way or the other.
Settle ==
  \/ \E r \in Runs, m \in ThrownMessages : FetchReject(r, m)
  \/ \E r \in Runs, q \in Served(env) : \E body \in BodiesOf(q.resp) :
       FetchResolve(r, q, body)

\* A relay call that is pending eventually completes, with a response or a
\* failure.
FairSpec == Spec /\ WF_vars(Settle)

\* The relay handler serving the requests of any client, one await at a time.
RelayNext ==
  \/ \E method \in Methods, hasFile \in BOOLEAN : Receive(method, hasFile)
  \/ RelayDispatch
  \/ \E ready \in BOOLEAN : LdWaitDone(ready)
  \/ \E answered \in Answers : LdVarDone(answered)
  \/ LdCloseDone
  \/ FormDone
  \/ /\ req.pc = "infer"
     /\ \E inference \in RelayInferences : InferDone(inference)

RelaySpec == Init /\ [][RelayNext]_vars

\* The relay handler serving requests whose inference replies are the
\* representative ones of Inferences.
ServeNext ==
  \/ \E method \in Methods, hasFile \in BOOLEAN : Receive(method, hasFile)
  \/ RelayDispatch
  \/ \E ready \in BOOLEAN : LdWaitDone(ready)
  \/ \E answered \in Answers : LdVarDone(answered)
  \/ LdCloseDone
  \/ FormDone
  \/ \E inference \in Inferences : InferDone(inference)

ServeSpec == Init /\ [][ServeNext]_vars

\* The relay handler's own stretches run, and the inference API settles every
\* call; nothing makes the flag service settle the calls of its client, which
\* the handler awaits without a timeout.
FairServeSpec ==
  /\ ServeSpec
  /\ WF_vars(RelayDispatch)
  /\ WF_vars(FormDone)
  /\ WF_vars(\E inference \in Inferences : InferDone(inference))

\* The feature-flags handler serving the requests of any client.
FlagsNext ==
  \/ \E method \in Methods : FlagReceive(method)
  \/ FlagDispatchDone
  \/ \E ready \in BOOLEAN, thrown \in FlagErrors : FlagWaitDone(ready, thrown)
  \/ \E answered \in Answers, thrown \in FlagErrors : FlagVar1Done(answered, thrown)
  \/ \E answered \in Answers, thrown \in FlagErrors : FlagVar2Done(answered, thrown)
  \/ \E closed \in BOOLEAN, thrown \in FlagErrors : FlagCloseDone(closed, thrown)

\* The two functions of the site, each serving the requests of any client.
FunctionsNext == ServeNext \/ FlagsNext

FunctionsSpec == Init /\ [][FunctionsNext]_vars


\* ================================================================ claims
InFlight == 1..Len(runs)
Selecting == last.op \in {"drop", "change"}
Completed == last.op = "complete"
UpTo(n) == [k \in 1..n |-> k]

\* C1: at most one relay call is in flight in every reachable state.
C1_Sequential == Cardinality(InFlight) <= 1

\* C2: when a submission completes, results has one entry per file of the
\* current UploadBatch, the i-th entry naming the i-th file of the batch.
C2_ResultsMatchBatch ==
  Completed =>
    /\ Len(state.results) = Len(files)
    /\ \A i \in 1..Len(state.results) : state.results[i].fileName = files[i].name

\* C3: a submission of N files ends with N outcomes in input order, status
\* error with a non-empty message exactly where the relay call failed and
\* success elsewhere, every file having been attempted.
C3_OneOutcomePerFile ==
  Completed =>
    LET n == Len(last.files) IN
    /\ Len(state.results) = n
    /\ Len(last.kinds) = n
    /\ last.calls = UpTo(n)
    /\ \A i \in 1..n :
         /\ state.results[i].fileName = last.files[i].name
         /\ state.results[i].status = IF last.kinds[i] = "ok" THEN "success" ELSE "error"
         /\ last.kinds[i] # "ok" => state.results[i].error.text # ""

C3_Witness ==
  /\ Completed
  /\ Len(last.files) = 2
  /\ last.kinds[1] \in {"netfail", "non2xx", "empty", "malformed"}
  /\ last.kinds[2] = "ok"
  /\ state.results[1].status = "error"
  /\ state.results[2].status = "success"

\* C4: every started submission terminates: its run reaches the final
\* setState, which leaves uploading=false and one outcome per submitted file,
\* and uploading=true never lasts forever.
C4_Terminates ==
  /\ []<>(InFlight = {})
  /\ []<>(~ state.uploading)
  /\ [](Completed =>
         /\ ~ state.uploading
         /\ Len(state.results) = Len(last.files))

C4_Witness ==
  /\ Completed
  /\ started = 2
  /\ InFlight = {}
  /\ Len(last.files) = 2
  /\ ~ state.uploading
  /\ Len(state.results) = 2

\* C5: no retries: a submission of N files issues exactly N relay calls, for
\* the files 1..N in this order, and the relay invocation serving a call makes
\* at most one inference call: one when the credential is configured (the
\* Coordinator's request is a POST with a file), none otherwise or when the
\* request never reached the relay.
C5_NoRetries ==
  /\ \A r \in InFlight :
       /\ runs[r].calls = UpTo(runs[r].i + 1)
       /\ Len(runs[r].results) = runs[r].i
       /\ Len(runs[r].api) = runs[r].i
  /\ Completed =>
       /\ last.calls = UpTo(Len(last.files))
       /\ Len(last.api) = Len(last.files)
       /\ \A k \in 1..Len(last.api) :
            last.api[k] = IF env.apiKey /\ last.kinds[k] # "netfail" THEN 1 ELSE 0

C5_Witness ==
  /\ Completed
  /\ Len(last.files) = 2
  /\ last.kinds = <<"non2xx", "ok">>
  /\ last.calls = <<1, 2>>
  /\ last.api = <<1, 1>>

NoPdf(sel) == \A i \in 1..Len(sel) : sel[i].type # PDF
SomeOther(sel) == \E i \in 1..Len(sel) : sel[i].type # PDF
Rejection == "Please upload PDF files only"

\* C6 as stated: after a selection with no PDF file, in any state, the
\* UploadBatch is empty and error is set.
C6_EmptyAfterRejection ==
  (Selecting /\ NoPdf(last.sel)) => (files = <<>> /\ state.error # Null)

\* C6 as amended: a selection with no PDF file leaves the UploadBatch as it
\* was (empty only if it was empty) and sets error to the rejection message.
C6_BatchKeptAfterRejection ==
  [][(last'.op \in {"drop", "change"} /\ NoPdf(last'.sel))
       => (files' = files /\ state' = ClearedState(Rejection))]_vars

C6_Witness ==
  /\ last.op = "drop"
  /\ last.sel = <<FileN>>
  /\ files = <<FileA, FileB>>
  /\ state.error = Rejection

\* C7 as stated: the UploadBatch holds PDF files only, and no file of a
\* selection that contains a file of another type enters the UploadBatch.
C7_NoPartialAcceptance ==
  /\ \A i \in 1..Len(files) : files[i].type = PDF
  /\ (Selecting /\ SomeOther(last.sel)) =>
       \A i \in 1..Len(last.sel), j \in 1..Len(files) : files[j] # last.sel[i]

\* C7 as amended: the UploadBatch holds PDF files only; a selection with a
\* PDF file in it replaces the batch by exactly its PDF files, in their order,
\* whatever else it contains.
C7_PdfFilesOnly ==
  /\ \A i \in 1..Len(files) : files[i].type = PDF
  /\ (Selecting /\ ~ NoPdf(last.sel)) => files = FilterPdf(last.sel)
  /\ Selecting => \A i \in 1..Len(last.sel) :
       last.sel[i].type # PDF => \A j \in 1..Len(files) : files[j] # last.sel[i]

C7_Witness ==
  /\ last.op = "drop"
  /\ last.sel = <<FileA, FileN>>
  /\ files = <<FileA>>

\* C8: currentFile lies in [0, totalFiles] in every reachable state.
C8_IndexInRange ==
  state.currentFile >= 0 /\ state.currentFile <= state.totalFiles

\* C9: a reset leaves, in the one step it takes, the batch empty and every
\* field of UploadState at its initial value.
C9_ResetRestoresInitial ==
  last.op = "reset" =>
    /\ files = <<>>
    /\ state.results = <<>>
    /\ state.error = Null
    /\ state.uploading = FALSE
    /\ state.currentFile = 0
    /\ state.totalFiles = 0

C9_Witness ==
  /\ last.op = "reset"
  /\ last.n = 2
  /\ Len(last.files) = 2
  /\ InFlight = {}
  /\ files = <<>>
  /\ state = InitialState

\* C10: an OPTIONS request is answered 200 with the cross-origin headers, and
\* a request with a verb other than POST and OPTIONS 405 with success=false,
\* whatever the credential; neither consults the flag service or the
\* inference API.
C10_MethodDispatch ==
  /\ req.method # "POST" =>
       /\ req.pc \in {"idle", "sent", "responded"}
       /\ req.ldLog = <<>>
       /\ req.apiCalls = 0
  /\ (req.pc = "responded" /\ req.method = "OPTIONS") =>
       /\ req.resp.status = 200
       /\ req.resp.cors
       /\ req.resp.ok
  /\ (req.pc = "responded" /\ req.method \notin {"POST", "OPTIONS"}) =>
       /\ req.resp.status = 405
       /\ req.resp.success = "false"

C10_Witness ==
  /\ req.pc = "responded"
  /\ req.method = "OPTIONS"
  /\ ~ env.apiKey
  /\ env.ldId
  /\ req.resp.status = 200

\* C11: without the inference-API credential every POST, with or without a
\* file field, is answered 500 with success=false and the error
\* "ANTHROPIC_API_KEY not configured", and the handler has consulted neither
\* the flag service nor the inference API.
C11_FailFast ==
  (req.method = "POST" /\ ~ env.apiKey) =>
     /\ req.pc \in {"idle", "sent", "responded"}
     /\ req.ldLog = <<>>
     /\ req.apiCalls = 0
     /\ req.pc = "responded" =>
          /\ req.resp.status = 500
          /\ req.resp.success = "false"
          /\ req.resp.error = Msg("ANTHROPIC_API_KEY not configured")

C11_Witness ==
  /\ req.pc = "responded"
  /\ req.method = "POST"
  /\ ~ req.hasFile
  /\ ~ env.apiKey
  /\ env.ldId
  /\ req.resp.status = 500

\* C12: with the credential configured, a POST whose form body has no file
\* field is answered 400 with success=false, not 500, and no inference-API
\* call is made for it.
C12_MissingFile ==
  (req.method = "POST" /\ env.apiKey /\ ~ req.hasFile) =>
     /\ req.apiCalls = 0
     /\ req.pc # "infer"
     /\ req.pc = "responded" =>
          /\ req.resp.status = 400
          /\ req.resp.success = "false"
          /\ req.resp.error = Msg("No file provided")

C12_Witness ==
  /\ req.pc = "responded"
  /\ req.method = "POST"
  /\ ~ req.hasFile
  /\ env.apiKey
  /\ env.ldId
  /\ req.ldLog # <<>>
  /\ req.resp.status = 400

\* C13: a content error is not a failure.  When the inference API replies
\* with text that is not JSON after fence-stripping, the relay invocation
\* answers 200 with success=true and a result carrying rawResponse (the
\* stripped text) and a non-empty parseError, not the 500 of its catch; and
\* for every call of a submission whose response body the Coordinator read
\* with such a result in it, the FileOutcome has status=success and carries
\* that result.
ContentError(inference) ==
  inference.ok /\ ~ JsonValid(StripFences(inference.text))

RawResult(r) == r.kind = "raw" /\ r.parseError # "" /\ ~ JsonValid(r.rawResponse)

\* The relay invocations that serve a POST with a file and get a content
\* error from the inference API, each with its environment and the reply.
ContentErrorInvocations ==
  { <<e, inference, Handle(NewReq("POST", TRUE), e, ready, answered, inference)>> :
      e \in { x \in Envs : x.apiKey }, ready \in BOOLEAN, answered \in Answers,
      inference \in { x \in Inferences : ContentError(x) } }

C13_ContentErrorIsSuccess ==
  /\ \A p \in { x \in ContentErrorInvocations : x[1] = env } :
       LET inference == p[2]
           q == p[3]
       IN  /\ q.pc = "responded"
           /\ q.resp.status = 200
           /\ q.resp.success = "true"
           /\ RawResult(q.resp.result)
           /\ q.resp.result.rawResponse = StripFences(inference.text)
           /\ Outcome(q) \in Served(env)
  /\ \A r \in InFlight : \A k \in 1..Len(runs[r].served) :
       runs[r].served[k] = "raw" =>
          /\ runs[r].kinds[k] = "ok"
          /\ runs[r].results[k].status = "success"
          /\ RawResult(runs[r].results[k].result)
  /\ Completed => \A k \in 1..Len(last.served) :
       last.served[k] = "raw" =>
          /\ last.kinds[k] = "ok"
          /\ state.results[k].status = "success"
          /\ RawResult(state.results[k].result)

C13_Witness ==
  /\ Completed
  /\ Len(last.files) = 2
  /\ last.served = <<"raw", "parsed">>
  /\ last.kinds = <<"ok", "ok">>
  /\ state.results[1].status = "success"
  /\ state.results[1].result.rawResponse = <<"x">>

\* C14: fence-stripping.  For every JSON value j, a reply made of a JSON
\* fence or a plain fence, a JSON text of j and the closing fence has both
\* fences removed and parses to j; a reply that is a JSON text of j with no
\* fence keeps its text (white space around it aside), parses to j, and
\* stripping the stripped text again changes nothing.
JsonFence == <<"F", "json", "n">>
PlainFence == <<"F", "n">>
ClosingFence == <<"n", "F">>
Inside(c, open) == SubSeq(c, Len(open) + 1, Len(c) - Len(ClosingFence))
FencedBy(c, open) ==
  /\ Len(c) > Len(open) + Len(ClosingFence)
  /\ SubSeq(c, 1, Len(open)) = open
  /\ SubSeq(c, Len(c) - Len(ClosingFence) + 1, Len(c)) = ClosingFence
Parsed(j) == [kind |-> "parsed", value |-> j, rawResponse |-> <<>>, parseError |-> ""]

C14_FenceStripping ==
  (req.pc = "responded" /\ req.resp.success = "true") =>
     LET c == Trim(req.responseText) IN
     \A j \in JsonValues :
       /\ \A open \in {JsonFence, PlainFence} :
            (FencedBy(c, open) /\ Trim(Inside(c, open)) = <<j>>) =>
               /\ req.cleanedText = Inside(c, open)
               /\ req.resp.result = Parsed(j)
       /\ c = <<j>> =>
            /\ req.cleanedText = c
            /\ req.responseText = <<j>> => req.cleanedText = req.responseText
            /\ StripFences(req.cleanedText) = req.cleanedText
            /\ req.resp.result = Parsed(j)

C14_Witness ==
  /\ req.pc = "responded"
  /\ req.responseText = <<"F", "json", "n", "K", "n", "F">>
  /\ req.cleanedText = <<"K">>
  /\ req.resp.result = Parsed("K")

\* C15: the flag lookup never blocks or fails the validation request:
\* whatever the flag service does, a POST with the credential and a file goes
\* on to its one inference-API call and is eventually answered.
Validating == req.method = "POST" /\ req.hasFile /\ env.apiKey

C15_FlagLookupNeverBlocks ==
  /\ []((Validating /\ req.pc = "responded") => req.apiCalls = 1)
  /\ ((Validating /\ req.pc = "sent") ~> (req.pc = "responded"))

\* C16: absence of the flag-service identifier.  In the relay handler it is
\* not an error: the flag client is never built, enhancedValidationEnabled
\* keeps its default false, and a POST with credential and file goes on to its
\* inference call and is answered 200, or 500 with the inference API's error.
InferenceErrors ==
  { OrElse(i.message, "Internal server error") : i \in { x \in Inferences : ~ x.ok } }

RelayUnaffected ==
  /\ req.ldLog = <<>>
  /\ ~ req.enhancedValidationEnabled
  /\ (Validating /\ req.pc = "responded") =>
       /\ req.apiCalls = 1
       /\ \/ req.resp.status = 200 /\ req.resp.success = "true"
          \/ req.resp.status = 500 /\ req.resp.error \in InferenceErrors

FlagsDisabled ==
  /\ flagReq.ldLog = <<>>
  /\ ~ flagReq.newFeatureEnabled
  /\ ~ flagReq.enhancedValidationEnabled

\* C16 as claimed: the feature-flags function too answers without an error.
C16_AbsenceIsNotAnError ==
  ~ env.ldId =>
     /\ RelayUnaffected
     /\ FlagsDisabled
     /\ flagReq.pc = "responded" =>
          /\ flagReq.resp.status = 200
          /\ flagReq.resp.success # "false"

\* C16 as amended: the feature-flags function answers every request but
\* OPTIONS with 500, success=false and "LAUNCHDARKLY_CLIENT_SIDE_ID not
\* configured", without building a flag client.
C16_AbsenceInRelayOnly ==
  ~ env.ldId =>
     /\ RelayUnaffected
     /\ FlagsDisabled
     /\ flagReq.pc \in {"idle", "sent", "responded"}
     /\ (flagReq.pc = "responded" /\ flagReq.method = "OPTIONS") =>
          flagReq.resp.status = 200
     /\ (flagReq.pc = "responded" /\ flagReq.method # "OPTIONS") =>
          /\ flagReq.resp.status = 500
          /\ flagReq.resp.success = "false"
          /\ flagReq.resp.error = Msg("LAUNCHDARKLY_CLIENT_SIDE_ID not configured")

C16_Witness ==
  /\ ~ env.ldId
  /\ env.apiKey
  /\ req.pc = "responded"
  /\ req.method = "POST"
  /\ req.hasFile
  /\ req.resp.status = 200
  /\ flagReq.pc = "responded"
  /\ flagReq.method = "GET"
  /\ flagReq.resp.status = 500

\* C17: every flag client built during a request is initialized, awaited,
\* queried and closed in this order, and has been closed when the handler
\* returns its response, also when waitForInitialization or a query fails.
IsPrefix(s, t) == Len(s) <= Len(t) /\ SubSeq(t, 1, Len(s)) = s

Closed(q) == q.ldLog # <<>> => q.ldLog[Len(q.ldLog)] = "close"

C17_ClientLifecycle ==
  /\ IsPrefix(req.ldLog, <<"init", "waitForInitialization", "variation", "close">>)
  /\ IsPrefix(flagReq.ldLog,
              <<"init", "waitForInitialization", "variation", "variation", "close">>)
  /\ req.pc = "responded" => Closed(req)
  /\ flagReq.pc = "responded" => Closed(flagReq)

\* C18: the relay sends success=false only with status 400, 405 or 500, so in
\* the Coordinator composed with it no call ends in the branch for a 2xx
\* reply with success=false: a failure the relay reports becomes a
\* FileOutcome with status=error whose message is built from the HTTP status
\* line, and no FileOutcome carries the relay's own error text.
RelayErrorTexts ==
  { "ANTHROPIC_API_KEY not configured", "Method not allowed", "No file provided",
    "Internal server error" } \cup { i.message.text : i \in { x \in Inferences : ~ x.ok } }

StatusLineOutcome(kind, outcome) ==
  /\ kind # "rejected"
  /\ kind = "non2xx" =>
       /\ outcome.status = "error"
       /\ outcome.error.text = "HTTP"
       /\ outcome.error.status \in {400, 405, 500}
  /\ outcome.status = "error" => outcome.error.text \notin RelayErrorTexts \ {""}

C18_FailuresByStatusLine ==
  /\ \A q \in Served(env) :
       q.resp.success = "false" => q.resp.status \in {400, 405, 500}
  /\ \A r \in InFlight : \A k \in 1..Len(runs[r].kinds) :
       StatusLineOutcome(runs[r].kinds[k], runs[r].results[k])
  /\ Completed => \A k \in 1..Len(last.kinds) :
       StatusLineOutcome(last.kinds[k], state.results[k])

C18_Witness ==
  /\ Completed
  /\ ~ env.apiKey
  /\ last.kinds = <<"non2xx", "non2xx">>
  /\ state.results[2].status = "error"
  /\ state.results[2].error = HttpMsg(500)

====
